---- MODULE Spec2Model ----
(***************************************************************************)
(* Model of .github/actions/codex-replier/replier.py: one run of main()    *)
(* (event -> trigger filter -> prompt -> reply dispatcher -> post), and    *)
(* the pure helpers of the prompt builder (fetch_thread_comments,          *)
(* safe_trim, build_prompt's context assembly).                            *)
(*                                                                         *)
(* A Python str is a sequence of one-character strings; a literal of the   *)
(* program whose inner characters never matter is kept as one element.     *)
(* An unset environment variable and an empty one are both <<>> or "":     *)
(* every read in the program is `e(X) or default` / `get(X, '')`.          *)
(***************************************************************************)
EXTENDS Integers, Sequences, FiniteSets, TLC

VARIABLES
    env,        \* os.environ, fixed for the run
    event,      \* the payload returned by load_event()
    pc,         \* position of main()
    calls,      \* outbound calls and subprocesses started so far, in order
    templates,  \* try_cli: command templates not tried yet
    responses,  \* call_openai: how the Responses call ended (resp_json, or the exception)
    chat,       \* call_openai: how the Chat call ended (chat_json, or the exception)
    reply_text, \* main: the reply obtained from the dispatcher
    body_md,    \* main: the assembled comment body
    log,        \* annotation lines that matter: errors and the dry-run notice
    posted,     \* bodies of the comments GitHub accepted
    exit_code,  \* -1 while running, else the process exit code
    p_pc,       \* prompt builder: position
    p_in,       \* prompt builder: its arguments and the fetched items
    p_comments, \* prompt builder: result of fetch_thread_comments
    p_lines,    \* prompt builder: rendered bodies of the thread block
    p_context,  \* prompt builder: context_text placed in the prompt
    p_prompt    \* prompt builder: (responses_input, system_for_chat, chat_user_content)

mainVars == <<env, event, pc, calls, templates, responses, chat,
              reply_text, body_md, log, posted, exit_code>>
promptVars == <<p_pc, p_in, p_comments, p_lines, p_context, p_prompt>>
vars == <<env, event, pc, calls, templates, responses, chat,
          reply_text, body_md, log, posted, exit_code,
          p_pc, p_in, p_comments, p_lines, p_context, p_prompt>>

-----------------------------------------------------------------------------
(* Python string primitives *)

Min(a, b) == IF a < b THEN a ELSE b
Max(a, b) == IF a > b THEN a ELSE b

\* str.isspace() on one character
IsSpace(c) == c \in {" ", "\n", "\r", "\t"}

RECURSIVE LStrip(_)
LStrip(s) == IF s = <<>> THEN s
             ELSE IF IsSpace(Head(s)) THEN LStrip(Tail(s)) ELSE s

RECURSIVE RStrip(_)
RStrip(s) == IF s = <<>> THEN s
             ELSE IF IsSpace(s[Len(s)]) THEN RStrip(SubSeq(s, 1, Len(s) - 1)) ELSE s

Strip(s) == RStrip(LStrip(s))

StartsWith(s, p) == Len(p) <= Len(s) /\ SubSeq(s, 1, Len(p)) = p

\* s[:k] and s[k:] for k >= 0
Take(s, k) == SubSeq(s, 1, Min(k, Len(s)))
Drop(s, k) == SubSeq(s, Min(k, Len(s)) + 1, Len(s))

\* str.lower() on the values the flags take
Lower(v) == CASE v = "TRUE" -> "true"
              [] v = "On" -> "on"
              [] v = "ON" -> "on"
              [] v = " ON " -> " on "
              [] OTHER -> v

\* str.strip() on the values the flags take
StripFlag(v) == CASE v = " on " -> "on"
                  [] v = " ON " -> "ON"
                  [] OTHER -> v

Truthy == {"1", "true", "yes", "on"}

\* os.environ.get(X, '').lower() in ('1','true','yes','on')
EnvFlag(v) == Lower(v) \in Truthy

\* boolish(e(X) or 'true', True)
boolish(v) == LET w == IF v = "" THEN "true" ELSE v
              IN Lower(StripFlag(w)) \in Truthy

-----------------------------------------------------------------------------
(* Literals of the program *)

DefaultPrefix == <<"/", "c", "o", "d", "e", "x">>
NoText == <<"(No text response received from the model.)">>
OpenAIError == <<"(OpenAI error) ">>
Created == "created"

\* name of each outbound call / subprocess
ThreadGet == "GET issues/comments"
CliRun == "subprocess bash -lc"
ResponsesPost == "POST /v1/responses"
ChatPost == "POST /v1/chat/completions"
CommentPost == "POST issues/comments"

-----------------------------------------------------------------------------
(* main(): values resolved from the event and the environment *)

action == event.action
comment == event.body
commenter == event.login

\* (issue.number or issue.number or pull_request.number); 0 is None
number == IF event.issue_number # 0 THEN event.issue_number ELSE event.pr_number

RECURSIVE IndexOf(_, _)
\* s.find(c) + 1, 0 when c is not in s
IndexOf(s, c) == IF s = <<>> THEN 0
                 ELSE IF Head(s) = c THEN 1
                 ELSE LET i == IndexOf(Tail(s), c) IN IF i = 0 THEN 0 ELSE i + 1

\* repo.split('/', 1) when '/' in repo, else repository.owner.login / .name
owner == LET i == IndexOf(event.full_name, "/")
         IN IF i # 0 THEN SubSeq(event.full_name, 1, i - 1) ELSE event.owner_login

repo_name == LET i == IndexOf(event.full_name, "/")
             IN IF i # 0 THEN Drop(event.full_name, i) ELSE event.name

prefix == Strip(IF env.INPUT_TRIGGER_PREFIX = <<>> THEN DefaultPrefix
                ELSE env.INPUT_TRIGGER_PREFIX)

mention == boolish(env.INPUT_MENTION_AUTHOR)
include_thread == boolish(env.INPUT_INCLUDE_THREAD_CONTEXT)

raw_request == LStrip(Drop(Strip(comment), Len(prefix)))

DryRun == EnvFlag(env.CODEX_DRY_RUN)
CliDisabled == EnvFlag(env.CODEX_CLI_DISABLE)
disable_chat_fb == EnvFlag(env.CODEX_DISABLE_CHAT_FALLBACK)

Addressed == owner # <<>> /\ repo_name # <<>> /\ number # 0

Line(level, text) == [level |-> level, text |-> text]

\* sys.exit(code) after printing `line`
Exit(code, line) ==
    /\ pc' = "exited"
    /\ exit_code' = code
    /\ log' = Append(log, line)

-----------------------------------------------------------------------------
(* main(), lines 359-404: event loader and trigger filter *)

\* TriggerFilter without the check of an empty request (lines 402-404)
TriggerFilter_NoEmptyCheck ==
    /\ pc = "start"
    /\ IF ~event.present
         THEN Exit(0, Line("notice", <<"No event payload found; nothing to do">>))
       ELSE IF action # Created
         THEN Exit(0, Line("notice", <<"Event action not 'created'; skipping">>))
       ELSE IF ~StartsWith(Strip(comment), prefix)
         THEN Exit(0, Line("notice", <<"Comment does not start with prefix; skipping">>))
       ELSE /\ pc' = "openai_key"
            /\ UNCHANGED <<exit_code, log>>
    /\ UNCHANGED <<env, event, calls, templates, responses, chat,
                   reply_text, body_md, posted, promptVars>>

TriggerFilter ==
    /\ pc = "start"
    /\ IF ~event.present
         THEN Exit(0, Line("notice", <<"No event payload found; nothing to do">>))
       ELSE IF action # Created
         THEN Exit(0, Line("notice", <<"Event action not 'created'; skipping">>))
       ELSE IF ~StartsWith(Strip(comment), prefix)
         THEN Exit(0, Line("notice", <<"Comment does not start with prefix; skipping">>))
       ELSE IF raw_request = <<>>
         THEN Exit(0, Line("warning", <<"Empty prompt after prefix; nothing to do">>))
       ELSE /\ pc' = "openai_key"
            /\ UNCHANGED <<exit_code, log>>
    /\ UNCHANGED <<env, event, calls, templates, responses, chat,
                   reply_text, body_md, posted, promptVars>>

(* main(), lines 406-409 *)
CheckOpenAIKey ==
    /\ pc = "openai_key"
    /\ IF env.OPENAI_API_KEY = ""
         THEN Exit(1, Line("error", <<"Missing OPENAI_API_KEY secret">>))
         ELSE /\ pc' = "build_prompt"
              /\ UNCHANGED <<exit_code, log>>
    /\ UNCHANGED <<env, event, calls, templates, responses, chat,
                   reply_text, body_md, posted, promptVars>>

(* main(), lines 412-425: build_prompt, whose only outbound call is the    *)
(* thread GET of fetch_thread_comments; what it computes is PromptSpec's.  *)
BuildPrompt ==
    /\ pc = "build_prompt"
    /\ calls' = IF include_thread /\ env.GITHUB_TOKEN # "" /\ Addressed
                  THEN Append(calls, ThreadGet)
                  ELSE calls
    /\ pc' = "dispatch"
    /\ UNCHANGED <<env, event, templates, responses, chat,
                   reply_text, body_md, log, posted, exit_code, promptVars>>

-----------------------------------------------------------------------------
(* try_cli, lines 270-317 *)

\* one element per command template still to try
CliTemplates == IF env.CODEX_CLI_TEMPLATE # ""
                  THEN <<env.CODEX_CLI_TEMPLATE>>
                  ELSE <<"printf %s {prompt} | npx -y @openai/codex@latest --",
                         "npx -y @openai/codex@latest -- {prompt}">>

\* what subprocess.run can end with: an exception (timeout, OSError), or a
\* completed process with its return code and stdout
CliOutcomes ==
    { [raised |-> TRUE,  returncode |-> 0, stdout |-> <<>>],
      [raised |-> FALSE, returncode |-> 1, stdout |-> <<"o", "k">>],
      [raised |-> FALSE, returncode |-> 0, stdout |-> <<" ", "\n">>],
      [raised |-> FALSE, returncode |-> 0, stdout |-> <<" ", "o", "k", "\n">>] }

\* lines 305-315: the candidate's reply, <<>> when it is rejected
CliReply(out) == IF out.raised \/ out.returncode # 0 THEN <<>> ELSE Strip(out.stdout)

\* call_openai under CODEX_DRY_RUN, line 174
DryRunReply == <<"(dry-run) prompt: ", "{prompt}", " | model: ", "{model}">>

(* main(), lines 427-431, and try_cli up to its loop *)
Dispatch ==
    /\ pc = "dispatch"
    /\ IF DryRun
         THEN /\ reply_text' = DryRunReply
              /\ pc' = "assemble"
              /\ UNCHANGED <<templates, log>>
       ELSE IF CliDisabled
         THEN /\ pc' = "responses"
              /\ log' = Append(log, Line("notice", <<"CLI disabled by CODEX_CLI_DISABLE">>))
              /\ UNCHANGED <<templates, reply_text>>
       ELSE /\ templates' = CliTemplates
            /\ pc' = "cli"
            /\ UNCHANGED <<reply_text, log>>
    /\ UNCHANGED <<env, event, calls, responses, chat, body_md,
                   posted, exit_code, promptVars>>

(* try_cli, lines 289-317: one pass of the loop; main() line 432 *)
CliAttempt ==
    /\ pc = "cli"
    /\ templates # <<>>
    /\ calls' = Append(calls, CliRun)
    /\ \E out \in CliOutcomes :
         IF CliReply(out) # <<>>
           THEN /\ reply_text' = CliReply(out)
                /\ pc' = "assemble"
                /\ templates' = <<>>
           ELSE /\ templates' = Tail(templates)
                /\ pc' = IF Tail(templates) = <<>> THEN "responses" ELSE "cli"
                /\ UNCHANGED reply_text
    /\ UNCHANGED <<env, event, responses, chat, body_md, log,
                   posted, exit_code, promptVars>>

-----------------------------------------------------------------------------
(* call_openai, lines 172-263 *)

NoField == <<>>
NoError == [present |-> FALSE, message |-> <<>>]
ErrorObj(m) == [present |-> TRUE, message |-> m]

\* a parsed JSON body: the fields extract_reply_text and call_openai read
Json(is_dict, error, output_text, wrapped_text, wrapped_block, choice, block) ==
    [is_dict |-> is_dict, error |-> error, output_text |-> output_text,
     wrapped_text |-> wrapped_text, wrapped_block |-> wrapped_block,
     choice |-> choice, block |-> block]

\* how a call ended: kind "ok" with the parsed body, "http_error" with the
\* status code and the error body, "exception" for any other failure
Outcome(kind, code, err_body, json) ==
    [kind |-> kind, code |-> code, err_body |-> err_body, json |-> json]

NoJson == Json(FALSE, NoError, NoField, NoField, NoField, NoField, NoField)
EmptyDict == Json(TRUE, NoError, NoField, NoField, NoField, NoField, NoField)

\* lines 134-169
extract_reply_text(j) ==
    IF ~j.is_dict THEN NoText
    ELSE IF j.output_text # <<>> THEN j.output_text
    ELSE IF j.wrapped_text # <<>> THEN j.wrapped_text
    ELSE IF j.wrapped_block # <<>> THEN j.wrapped_block
    ELSE IF Strip(j.choice) # <<>> THEN Strip(j.choice)
    ELSE IF j.block # <<>> THEN j.block
    ELSE NoText

\* lines 207, 257: isinstance(j, dict) and j.get('error')
HasError(j) == j.is_dict /\ j.error.present

\* lines 209, 258: err.get('message') or str(err)
ErrorMessage(j) == IF j.error.message # <<>> THEN j.error.message ELSE <<"str(err)">>

\* line 212 with the comparison to the placeholder turned round
Usable_Inverted(text) == text # <<>> /\ Strip(text) # <<>> /\ Strip(text) = NoText

\* line 212
Usable(text) == text # <<>> /\ Strip(text) # <<>> /\ Strip(text) # NoText

Boom == <<"b", "o", "o", "m">>

\* bodies the Responses endpoint can answer with
ResponsesBodies ==
    { EmptyDict,
      NoJson,
      Json(TRUE, ErrorObj(Boom), <<"h", "i">>, NoField, NoField, NoField, NoField),
      Json(TRUE, ErrorObj(<<>>), NoField, NoField, NoField, NoField, NoField),
      Json(TRUE, NoError, <<"h", "i", "\n">>, NoField, NoField, NoField, NoField),
      Json(TRUE, NoError, <<" ", "\n">>, NoField, NoField, <<"c">>, NoField),
      Json(TRUE, NoError, NoText, NoField, NoField, NoField, NoField),
      Json(TRUE, NoError, NoField, NoField, <<"w">>, <<"c">>, NoField),
      Json(TRUE, NoError, NoField, NoField, NoField, <<" ", "c", " ">>, <<"b">>) }

\* how urlopen/read/json.loads of lines 188-204 can end
ResponsesOutcomes ==
    { Outcome("http_error", "500", <<"d", "o", "w", "n">>, NoJson),
      Outcome("exception", "", <<>>, NoJson) }
    \cup { Outcome("ok", "", <<>>, j) : j \in ResponsesBodies }

\* lines 199, 203
ResponsesFailureLine(kind) ==
    IF kind = "http_error"
      THEN Line("error", <<"OpenAI /v1/responses failed">>)
      ELSE Line("error", <<"OpenAI call failed">>)

(* call_openai, lines 175-220: the Responses call (stage 2) *)
CallResponses ==
    /\ pc = "responses"
    /\ calls' = Append(calls, ResponsesPost)
    /\ \E r \in ResponsesOutcomes :
         IF r.kind # "ok"
           THEN /\ Exit(1, ResponsesFailureLine(r.kind))
                /\ responses' = r
                /\ UNCHANGED reply_text
         ELSE /\ responses' = r
              /\ UNCHANGED <<exit_code, log>>
              /\ IF HasError(r.json)
                   THEN /\ reply_text' = OpenAIError \o ErrorMessage(r.json)
                        /\ pc' = "assemble"
                 ELSE IF Usable(extract_reply_text(r.json))
                   THEN /\ reply_text' = extract_reply_text(r.json)
                        /\ pc' = "assemble"
                 ELSE IF disable_chat_fb
                   THEN /\ reply_text' = NoText
                        /\ pc' = "assemble"
                 ELSE /\ pc' = "chat"
                      /\ UNCHANGED reply_text
    /\ UNCHANGED <<env, event, templates, chat, body_md, posted, promptVars>>

\* a text of n characters
Chars(n) == [i \in 1..n |-> "a"]

\* number of characters of the HTTP error body kept in the reply, line 251
ErrBodyChars == 200

\* bodies the Chat endpoint can answer with
ChatBodies ==
    { EmptyDict,
      NoJson,
      Json(TRUE, ErrorObj(Boom), NoField, NoField, NoField, NoField, NoField),
      Json(TRUE, NoError, NoField, NoField, NoField, <<" ", "c", " ">>, NoField),
      Json(TRUE, NoError, NoField, NoField, NoField, <<" ">>, NoField) }

\* how urlopen/read/json.loads of lines 240-255 can end
ChatOutcomes ==
    { Outcome("http_error", "429", b, NoJson) :
        b \in { <<"b", "u", "s", "y">>, <<"{", "\n", " ", "}">>, Chars(ErrBodyChars + 1) } }
    \cup { Outcome("exception", "", <<>>, NoJson) }
    \cup { Outcome("ok", "", <<>>, j) : j \in ChatBodies }

NotCalled == Outcome("not_called", "", <<>>, NoJson)

resp_json == responses.json
chat_json == chat.json

\* lines 244-263: what call_openai returns after the Chat call ended with c
ChatReply(c) ==
    IF c.kind = "http_error"
      THEN <<"(OpenAI error) chat fallback ", c.code, ": ">> \o Take(c.err_body, ErrBodyChars)
    ELSE IF c.kind = "exception" THEN NoText
    ELSE IF HasError(c.json) THEN OpenAIError \o ErrorMessage(c.json)
    ELSE IF c.json.is_dict /\ Strip(c.json.choice) # <<>> THEN Strip(c.json.choice)
    ELSE NoText

\* CallChat treating a failure like the Responses call does: sys.exit(1)
CallChat_Fatal ==
    /\ pc = "chat"
    /\ calls' = Append(calls, ChatPost)
    /\ \E c \in ChatOutcomes :
         /\ chat' = c
         /\ IF c.kind = "ok"
              THEN /\ reply_text' = ChatReply(c)
                   /\ pc' = "assemble"
                   /\ UNCHANGED <<log, exit_code>>
              ELSE /\ Exit(1, Line("error", <<"Chat fallback failed">>))
                   /\ UNCHANGED reply_text
    /\ UNCHANGED <<env, event, templates, responses, body_md, posted, promptVars>>

(* call_openai, lines 221-263: the Chat call (stage 3) *)
CallChat ==
    /\ pc = "chat"
    /\ calls' = Append(calls, ChatPost)
    /\ \E c \in ChatOutcomes :
         /\ chat' = c
         /\ reply_text' = ChatReply(c)
         /\ log' = IF c.kind = "ok" THEN log
                   ELSE Append(log, Line("notice", <<"Chat fallback failed">>))
    /\ pc' = "assemble"
    /\ UNCHANGED <<env, event, templates, responses, body_md, posted,
                   exit_code, promptVars>>

-----------------------------------------------------------------------------
(* main(), lines 435-447, and post_comment *)

\* line 435 without the blank behind the login
mention_prefix_NoSpace == IF mention /\ commenter # "" THEN <<"@", commenter>> ELSE <<>>

\* line 435
mention_prefix == IF mention /\ commenter # "" THEN <<"@", commenter, " ">> ELSE <<>>

(* lines 435-436 *)
AssembleBody ==
    /\ pc = "assemble"
    /\ body_md' = mention_prefix \o reply_text
    /\ pc' = "github_token"
    /\ UNCHANGED <<env, event, calls, templates, responses, chat,
                   reply_text, log, posted, exit_code, promptVars>>

\* lines 438-441 without the exit
CheckGithubToken_Skipped ==
    /\ pc = "github_token"
    /\ pc' = "addressing"
    /\ UNCHANGED <<env, event, calls, templates, responses, chat,
                   reply_text, body_md, log, posted, exit_code, promptVars>>

(* lines 438-441 *)
CheckGithubToken ==
    /\ pc = "github_token"
    /\ IF env.GITHUB_TOKEN = ""
         THEN Exit(1, Line("error", <<"Missing GITHUB_TOKEN">>))
         ELSE /\ pc' = "addressing"
              /\ UNCHANGED <<exit_code, log>>
    /\ UNCHANGED <<env, event, calls, templates, responses, chat,
                   reply_text, body_md, posted, promptVars>>

(* lines 443-445 *)
CheckAddressing ==
    /\ pc = "addressing"
    /\ IF ~Addressed
         THEN Exit(1, Line("error", <<"Cannot resolve repository/issue context to post comment">>))
         ELSE /\ pc' = "post"
              /\ UNCHANGED <<exit_code, log>>
    /\ UNCHANGED <<env, event, calls, templates, responses, chat,
                   reply_text, body_md, posted, promptVars>>

\* line 322: the dry-run notice, which ends with body_md
WouldPost(body) == Line("notice", <<"(DRY-RUN) Would post:", "\n">> \o body)

\* post_comment without the dry-run return of lines 321-323
PostComment_NoDryRunCheck ==
    /\ pc = "post"
    /\ calls' = Append(calls, CommentPost)
    /\ \E accepted \in BOOLEAN :
         IF accepted
           THEN /\ posted' = Append(posted, body_md)
                /\ Exit(0, Line("notice", <<"Reply posted successfully">>))
           ELSE /\ Exit(1, Line("error", <<"Failed to post comment">>))
                /\ UNCHANGED posted
    /\ UNCHANGED <<env, event, templates, responses, chat,
                   reply_text, body_md, promptVars>>

\* post_comment logging a failed POST without sys.exit(1)
PostComment_FailureIgnored ==
    /\ pc = "post"
    /\ IF DryRun
         THEN /\ Exit(0, WouldPost(body_md))
              /\ UNCHANGED <<calls, posted>>
         ELSE /\ calls' = Append(calls, CommentPost)
              /\ \E accepted \in BOOLEAN :
                   IF accepted
                     THEN /\ posted' = Append(posted, body_md)
                          /\ Exit(0, Line("notice", <<"Reply posted successfully">>))
                     ELSE /\ Exit(0, Line("error", <<"Failed to post comment">>))
                          /\ UNCHANGED posted
    /\ UNCHANGED <<env, event, templates, responses, chat,
                   reply_text, body_md, promptVars>>

(* post_comment, lines 320-355, and the return of main() *)
PostComment ==
    /\ pc = "post"
    /\ IF DryRun
         THEN /\ Exit(0, WouldPost(body_md))
              /\ UNCHANGED <<calls, posted>>
         ELSE /\ calls' = Append(calls, CommentPost)
              /\ \E accepted \in BOOLEAN :
                   IF accepted
                     THEN /\ posted' = Append(posted, body_md)
                          /\ Exit(0, Line("notice", <<"Reply posted successfully">>))
                     ELSE /\ Exit(1, Line("error", <<"Failed to post comment">>))
                          /\ UNCHANGED posted
    /\ UNCHANGED <<env, event, templates, responses, chat,
                   reply_text, body_md, promptVars>>

-----------------------------------------------------------------------------
(* safe_trim, fetch_thread_comments and build_prompt as Python computes them *)

\* the one character U+2026
Ellipsis == "..."

\* lines 33-37, for a text that is not None
safe_trim(text, limit) ==
    IF Len(text) <= limit THEN text
    ELSE Take(text, Max(0, limit - 1)) \o <<Ellipsis>>

\* s[-k:] for any integer k, as Python slices
LastSlice(s, k) ==
    LET start == IF -k < 0 THEN Max(Len(s) - k, 0) ELSE Min(-k, Len(s))
    IN SubSeq(s, start + 1, Len(s))

RECURSIVE Insert(_, _)
\* c put behind every element of the sorted s whose key is not greater
Insert(s, c) ==
    IF s = <<>> THEN <<c>>
    ELSE IF c.created_at < Head(s).created_at THEN <<c>> \o s
    ELSE <<Head(s)>> \o Insert(Tail(s), c)

RECURSIVE SortByCreatedAt(_)
\* list.sort(key=created_at): stable, ascending
SortByCreatedAt(s) ==
    IF s = <<>> THEN <<>>
    ELSE Insert(SortByCreatedAt(SubSeq(s, 1, Len(s) - 1)), s[Len(s)])

\* lines 60-64; exclude_comment_id 0 is None
Filtered(items, exclude_comment_id) ==
    SelectSeq(items, LAMBDA it : ~(exclude_comment_id # 0 /\ it.id = exclude_comment_id))

\* lines 58-66, for a body that parsed to the list `items`
fetch_thread_comments(items, exclude_comment_id, limit) ==
    LastSlice(SortByCreatedAt(Filtered(items, exclude_comment_id)), limit)

RECURSIVE ReplaceCRLF(_)
\* body.replace("\r\n", "\n")
ReplaceCRLF(s) ==
    IF \A i \in 1..Len(s) : s[i] # "\r" THEN s
    ELSE IF Len(s) >= 2 /\ s[1] = "\r" /\ s[2] = "\n"
      THEN <<"\n">> \o ReplaceCRLF(SubSeq(s, 3, Len(s)))
    ELSE <<Head(s)>> \o ReplaceCRLF(Tail(s))

\* limit of a rendered thread comment body, line 113
BodyLimit == 1200

\* lines 111-113
RenderBody(c) == safe_trim(Strip(ReplaceCRLF(c.body)), BodyLimit)

\* line 110, 114
RenderLine(c) ==
    <<"-", " ">> \o (IF c.login # <<>> THEN c.login ELSE <<"u", "n", "k", "n", "o", "w", "n">>)
                 \o <<":", " ">> \o RenderBody(c)

RECURSIVE Join(_, _)
\* sep.join(parts)
Join(sep, parts) ==
    IF parts = <<>> THEN <<>>
    ELSE IF Len(parts) = 1 THEN parts[1]
    ELSE parts[1] \o sep \o Join(sep, Tail(parts))

\* str(n) of a number below 100
Str(n) == LET d == <<"0", "1", "2", "3", "4", "5", "6", "7", "8", "9">>
          IN IF n < 10 THEN <<d[n + 1]>> ELSE <<d[(n \div 10) + 1], d[(n % 10) + 1]>>

\* lines 88-102
MetaBlock(in) ==
    LET repo_full == IF in.owner # <<>> /\ in.repo_name # <<>>
                       THEN in.owner \o <<"/">> \o in.repo_name
                       ELSE in.full_name
        kind == IF in.is_pr THEN <<"P", "R">> ELSE <<"I", "s", "s", "u", "e">>
        meta == <<<<"R", "e", "p", "o", ":", " ">> \o repo_full,
                  Strip(kind \o <<":", " ", "#">> \o Str(in.number) \o <<" ">> \o in.title)>>
                \o (IF in.html_url # <<>>
                      THEN << <<"U", "R", "L", ":", " ">> \o in.html_url >>
                      ELSE <<>>)
                \o << <<"M", "o", "d", "e", "l", ":", " ">> \o in.model >>
    IN <<"[", "C", "o", "n", "t", "e", "x", "t", "]", "\n">> \o Join(<<"\n">>, meta)

\* lines 107-116
ThreadBlock(comments) ==
    <<"[", "R", "e", "c", "e", "n", "t", " ", "T", "h", "r", "e", "a", "d", "]", "\n">>
    \o Join(<<"\n">>, [i \in 1..Len(comments) |-> RenderLine(comments[i])])

\* lines 85-116: the blocks in front of the user block
ContextBlocks(in, comments) ==
    (IF in.include_metadata THEN <<MetaBlock(in)>> ELSE <<>>)
    \o (IF comments # <<>> THEN <<ThreadBlock(comments)>> ELSE <<>>)

\* lines 120-124
ContextText(in, comments) ==
    LET context_text == Join(<<"\n", "\n">>, ContextBlocks(in, comments))
    IN IF Len(context_text) > in.max_context_chars
         THEN safe_trim(context_text, in.max_context_chars)
         ELSE context_text

\* lines 118, 125-131
Prompt(in, context_text) ==
    LET user_block == <<"[", "U", "s", "e", "r", " ", "R", "e", "q", "u", "e", "s", "t", "]", "\n">>
                      \o in.user_request
        sys_msg == Strip(in.system_prompt)
        full_no_sys == Strip(context_text
                             \o (IF context_text # <<>> THEN <<"\n", "\n">> ELSE <<>>)
                             \o user_block)
    IN [responses_input |->
            IF sys_msg # <<>>
              THEN <<"[", "S", "y", "s", "t", "e", "m", "]", "\n">> \o sys_msg
                   \o <<"\n", "\n">> \o full_no_sys
              ELSE full_no_sys,
        system_for_chat |-> sys_msg,
        chat_user_content |-> full_no_sys]

NoPrompt == [responses_input |-> <<>>, system_for_chat |-> <<>>, chat_user_content |-> <<>>]

-----------------------------------------------------------------------------
(* One run of main() *)

Codex == <<"/", "c", "o", "d", "e", "x">>

\* comment bodies: a request behind the prefix, the bare prefix, another
\* case, the prefix not in front, no body
Bodies ==
    { <<" ">> \o Codex \o <<" ", " ", "e", "x", "\n">>,
      Codex \o <<" ", "\n">>,
      <<"/", "C", "o", "d", "e", "x", " ", "e", "x">>,
      <<"h", "i", " ">> \o Codex,
      <<>> }

\* repository and issue of the payload: full_name with a slash; owner.login
\* and name with a pull request number; nothing to address the reply to
Addressings ==
    { [full_name |-> <<"o", "/", "r">>, owner_login |-> <<>>, name |-> <<>>,
       issue_number |-> 7, pr_number |-> 0],
      [full_name |-> <<>>, owner_login |-> <<"o">>, name |-> <<"r">>,
       issue_number |-> 0, pr_number |-> 9],
      [full_name |-> <<"r">>, owner_login |-> <<>>, name |-> <<"r">>,
       issue_number |-> 7, pr_number |-> 0] }

Event(present, act, body, login, a) ==
    [present |-> present, action |-> act, body |-> body, login |-> login,
     full_name |-> a.full_name, owner_login |-> a.owner_login, name |-> a.name,
     issue_number |-> a.issue_number, pr_number |-> a.pr_number]

NoEvent == Event(FALSE, "", <<>>, "",
                 [full_name |-> <<>>, owner_login |-> <<>>, name |-> <<>>,
                  issue_number |-> 0, pr_number |-> 0])

Events ==
    { NoEvent } \cup
    { Event(TRUE, act, body, login, a) :
        act \in {Created, "edited"}, body \in Bodies,
        login \in {"", "alice"}, a \in Addressings }

Environments ==
    [ INPUT_TRIGGER_PREFIX : { <<>>, <<" ">> \o Codex \o <<" ">>, <<"h", "i">> },
      INPUT_MENTION_AUTHOR : { "", " ON ", "false" },
      INPUT_INCLUDE_THREAD_CONTEXT : { "", "0" },
      OPENAI_API_KEY : { "", "sk-key" },
      GITHUB_TOKEN : { "", "ghs-token" },
      CODEX_DRY_RUN : { "", "TRUE", " on " },
      CODEX_CLI_DISABLE : { "", "1" },
      CODEX_DISABLE_CHAT_FALLBACK : { "", "On" },
      CODEX_CLI_TEMPLATE : { "", "codex exec {prompt}" } ]

NoPromptInput == [items |-> <<>>]

MainInit ==
    /\ env \in Environments
    /\ event \in Events
    /\ pc = "start"
    /\ calls = <<>>
    /\ templates = <<>>
    /\ responses = NotCalled
    /\ chat = NotCalled
    /\ reply_text = <<>>
    /\ body_md = <<>>
    /\ log = <<>>
    /\ posted = <<>>
    /\ exit_code = -1

PromptIdle ==
    /\ p_pc = "idle"
    /\ p_in = NoPromptInput
    /\ p_comments = <<>>
    /\ p_lines = <<>>
    /\ p_context = <<>>
    /\ p_prompt = NoPrompt

Init == MainInit /\ PromptIdle

Next ==
    \/ TriggerFilter
    \/ CheckOpenAIKey
    \/ BuildPrompt
    \/ Dispatch
    \/ CliAttempt
    \/ CallResponses
    \/ CallChat
    \/ AssembleBody
    \/ CheckGithubToken
    \/ CheckAddressing
    \/ PostComment

Spec == Init /\ [][Next]_vars

-----------------------------------------------------------------------------
(* One call of build_prompt *)

\* longest list of comments the thread GET answers with
MaxItems == 3

\* comments of the thread: created_at 0 is a missing timestamp (key ''),
\* a body of <<>> a missing one
Pool ==
    { [id |-> 1, created_at |-> 3, login |-> <<"b", "o", "b">>,
       body |-> <<" ", "a", "\r", "\n", "b", " ">>],
      [id |-> 2, created_at |-> 1, login |-> <<>>, body |-> Chars(BodyLimit + 1)],
      [id |-> 3, created_at |-> 3, login |-> <<"e", "v", "e">>, body |-> Chars(BodyLimit)],
      [id |-> 4, created_at |-> 0, login |-> <<"d">>, body |-> <<>>] }

\* the lists of distinct comments of Pool, in any order, up to MaxItems long
ItemLists ==
    { s \in UNION { [1..n -> Pool] : n \in 0..MaxItems } :
        \A i, j \in 1..Len(s) : i # j => s[i].id # s[j].id }

PromptInputs ==
    [ items : ItemLists,
      exclude_comment_id : {0, 1, 2},
      max_thread_comments : {0, 1, 2},
      max_context_chars : {0, 12, 8000},
      include_metadata : BOOLEAN,
      include_thread : BOOLEAN,
      gh_token : {"", "ghs-token"},
      owner : {<<"o">>},
      repo_name : {<<"r">>},
      full_name : {<<"o", "/", "r">>},
      number : {7},
      title : {<<"T">>},
      html_url : {<<"u">>},
      is_pr : {FALSE},
      model : {<<"o", "4">>},
      user_request : {<<"e", "x">>},
      system_prompt : {<<>>, <<" ", "s", " ">>} ]

MainIdle ==
    /\ env = [INPUT_TRIGGER_PREFIX |-> <<>>, INPUT_MENTION_AUTHOR |-> "",
              INPUT_INCLUDE_THREAD_CONTEXT |-> "", OPENAI_API_KEY |-> "",
              GITHUB_TOKEN |-> "", CODEX_DRY_RUN |-> "", CODEX_CLI_DISABLE |-> "",
              CODEX_DISABLE_CHAT_FALLBACK |-> "", CODEX_CLI_TEMPLATE |-> ""]
    /\ event = NoEvent
    /\ pc = "idle"
    /\ calls = <<>>
    /\ templates = <<>>
    /\ responses = NotCalled
    /\ chat = NotCalled
    /\ reply_text = <<>>
    /\ body_md = <<>>
    /\ log = <<>>
    /\ posted = <<>>
    /\ exit_code = -1

PromptInit ==
    /\ MainIdle
    /\ p_in \in PromptInputs
    /\ p_pc = "fetch"
    /\ p_comments = <<>>
    /\ p_lines = <<>>
    /\ p_context = <<>>
    /\ p_prompt = NoPrompt

\* line 104
ThreadWanted(in) ==
    in.include_thread /\ in.gh_token # "" /\ in.owner # <<>> /\ in.repo_name # <<>>
    /\ in.number # 0

(* build_prompt, lines 104-106, with fetch_thread_comments, lines 40-66:   *)
(* the GET fails or answers something that is no list (<<>>), or answers   *)
(* the list p_in.items                                                     *)
FetchThread ==
    /\ p_pc = "fetch"
    /\ IF ThreadWanted(p_in)
         THEN \E answered \in BOOLEAN :
                p_comments' = IF answered
                                THEN fetch_thread_comments(p_in.items, p_in.exclude_comment_id,
                                                           p_in.max_thread_comments)
                                ELSE <<>>
         ELSE p_comments' = <<>>
    /\ p_pc' = "assemble"
    /\ UNCHANGED <<mainVars, p_in, p_lines, p_context, p_prompt>>

(* build_prompt, lines 107-131 *)
AssemblePrompt ==
    /\ p_pc = "assemble"
    /\ p_lines' = [i \in 1..Len(p_comments) |-> RenderBody(p_comments[i])]
    /\ p_context' = ContextText(p_in, p_comments)
    /\ p_prompt' = Prompt(p_in, ContextText(p_in, p_comments))
    /\ p_pc' = "done"
    /\ UNCHANGED <<mainVars, p_in, p_comments>>

PromptNext == FetchThread \/ AssemblePrompt

PromptSpec == PromptInit /\ [][PromptNext]_vars

-----------------------------------------------------------------------------
(* Vocabulary of the properties *)

\* how often a call of the given name was issued
Cnt(name) == Cardinality({ i \in 1..Len(calls) : calls[i] = name })

NetworkCalls == {ThreadGet, ResponsesPost, ChatPost, CommentPost}

\* the event is one the trigger filter has to reject: another action, a body
\* that (trimmed) does not start with the prefix, nothing behind the prefix
Rejected ==
    \/ action # Created
    \/ ~StartsWith(Strip(comment), prefix)
    \/ Strip(Drop(Strip(comment), Len(prefix))) = <<>>

Accepted == event.present /\ ~Rejected

CredentialMissing == env.OPENAI_API_KEY = "" \/ env.GITHUB_TOKEN = ""

Exited == pc = "exited"

LastLine == log[Len(log)]

\* C1: every run issues the comment-creation POST at most once; never when
\* the trigger filter rejects the event, never when OPENAI_API_KEY or
\* GITHUB_TOKEN is absent; and an accepted run that lacks a credential ends
\* with a non-zero exit code.
C1_AtMostOnePost ==
    /\ Cnt(CommentPost) <= 1
    /\ Len(posted) <= Cnt(CommentPost)
    /\ (event.present /\ Rejected) => Cnt(CommentPost) = 0
    /\ CredentialMissing => Cnt(CommentPost) = 0
    /\ (Accepted /\ CredentialMissing /\ Exited) => exit_code \notin {-1, 0}

\* an accepted run with OPENAI_API_KEY set obtained a reply from the model
\* and then ended non-zero for want of GITHUB_TOKEN
C1_Witness ==
    /\ Accepted /\ Exited
    /\ env.OPENAI_API_KEY # "" /\ env.GITHUB_TOKEN = ""
    /\ Cnt(ResponsesPost) = 1 /\ body_md # <<>>
    /\ exit_code = 1 /\ Cnt(CommentPost) = 0

\* C2: an event with another action, or whose trimmed body does not start
\* with the prefix, or with nothing behind the prefix, ends the run with
\* exit code 0 before any outbound call or subprocess, whatever the
\* credentials and flags are.
C2_QuiescentNoOp ==
    (event.present /\ Rejected) =>
        /\ calls = <<>>
        /\ pc \in {"start", "exited"}
        /\ Exited => exit_code = 0

\* the bare prefix with every credential set and dry-run off: exit 0, no call
C2_Witness ==
    /\ event.present /\ Exited /\ exit_code = 0 /\ calls = <<>>
    /\ action = Created
    /\ StartsWith(Strip(comment), prefix)
    /\ Strip(Drop(Strip(comment), Len(prefix))) = <<>>
    /\ env.OPENAI_API_KEY # "" /\ env.GITHUB_TOKEN # "" /\ ~DryRun /\ ~CliDisabled

\* C3: an accepted run that lacks OPENAI_API_KEY or GITHUB_TOKEN exits with
\* code 1 and an error message, and attempts no network call at any point.
C3_NoNetworkCallWithoutCredential ==
    (Accepted /\ CredentialMissing) =>
        /\ \A i \in 1..Len(calls) : calls[i] \notin NetworkCalls
        /\ Exited => (exit_code = 1 /\ LastLine.level = "error")

-----------------------------------------------------------------------------
(* The reply dispatcher *)

\* stage of a call; 0 for the thread GET, 4 for the comment POST
StageOf(name) == CASE name = CliRun -> 1
                   [] name = ResponsesPost -> 2
                   [] name = ChatPost -> 3
                   [] name = CommentPost -> 4
                   [] OTHER -> 0

\* extraction found no text in the body, or only the no-text placeholder
NothingExtracted(j) == extract_reply_text(j) \in {<<>>, NoText}

\* the text extracted from the body is empty, blank or the no-text placeholder
NoUsableText(j) == Strip(extract_reply_text(j)) \in {<<>>, NoText}

\* calls are issued in stage order, stages 2 and 3 at most once, stage 1 with
\* at most one subprocess per template, none when CODEX_CLI_DISABLE is set
StagesInOrder ==
    /\ \A i, k \in 1..Len(calls) : i < k => StageOf(calls[i]) <= StageOf(calls[k])
    /\ Cnt(ResponsesPost) <= 1
    /\ Cnt(ChatPost) <= 1
    /\ Cnt(CliRun) <= Len(CliTemplates)
    /\ CliDisabled => Cnt(CliRun) = 0

\* stage 2 is entered only when stage 1 yielded nothing: disabled and no
\* subprocess started, or every template tried without a reply
Stage2OnlyAfterStage1Failed ==
    (pc = "responses" \/ Cnt(ResponsesPost) > 0) =>
        /\ IF CliDisabled THEN Cnt(CliRun) = 0 ELSE Cnt(CliRun) = Len(CliTemplates)
        /\ pc = "responses" => reply_text = <<>>

\* once a stage produced the reply, no stage is pending any more
StopAtFirstText ==
    reply_text # <<>> => pc \notin {"dispatch", "cli", "responses", "chat"}

\* C4 as claimed: outside dry-run the stages run in the order 1, 2, 3, each
\* at most once, the chain stops at the first stage that yields non-empty
\* text, stage 2 runs only if stage 1 yielded nothing, and stage 3 runs only
\* if stage 2 returned a non-error body from which NO NON-EMPTY text was
\* extracted and CODEX_DISABLE_CHAT_FALLBACK is not set.
C4_FallbackOrder_AsClaimed ==
    ~DryRun =>
        /\ StagesInOrder
        /\ Stage2OnlyAfterStage1Failed
        /\ StopAtFirstText
        /\ (pc = "chat" \/ Cnt(ChatPost) > 0) =>
               /\ Cnt(ResponsesPost) = 1
               /\ responses.kind = "ok"
               /\ ~HasError(resp_json)
               /\ NothingExtracted(resp_json)
               /\ ~disable_chat_fb

\* C4 as amended: the same, but stage 3 runs only if stage 2 returned a
\* non-error body from which no USABLE text was extracted (the extracted
\* text is empty, whitespace only, or equal to the no-text placeholder) and
\* CODEX_DISABLE_CHAT_FALLBACK is not set; the chain stops at the first
\* stage that yields usable text.
C4_FallbackOrder ==
    ~DryRun =>
        /\ StagesInOrder
        /\ Stage2OnlyAfterStage1Failed
        /\ StopAtFirstText
        /\ (pc = "chat" \/ Cnt(ChatPost) > 0) =>
               /\ Cnt(ResponsesPost) = 1
               /\ responses.kind = "ok"
               /\ ~HasError(resp_json)
               /\ NoUsableText(resp_json)
               /\ ~disable_chat_fb
        /\ (responses.kind = "ok" /\ ~HasError(resp_json) /\ ~NoUsableText(resp_json)) =>
               (Cnt(ChatPost) = 0 /\ pc # "chat" /\ reply_text = extract_reply_text(resp_json))

\* both templates failed, stage 2 answered a blank text, stage 3 was called
C4_Witness ==
    /\ ~DryRun /\ ~CliDisabled
    /\ calls = <<CliRun, CliRun, ResponsesPost, ChatPost>>
    /\ resp_json.output_text = <<" ", "\n">>
    /\ ~NothingExtracted(resp_json)
    /\ chat.kind = "ok" /\ reply_text = <<"c">>

\* C5: under CODEX_DRY_RUN no comment-creation POST is issued, no
\* subprocess is started and no model endpoint is called; the reply is the
\* '(dry-run) ...' placeholder; and a run that reaches the posting step logs
\* a 'would post' notice holding the mention prefix, if any, followed by the
\* reply text.
C5_DryRun ==
    DryRun =>
        /\ Cnt(CommentPost) = 0 /\ posted = <<>>
        /\ Cnt(CliRun) = 0
        /\ Cnt(ResponsesPost) = 0 /\ Cnt(ChatPost) = 0
        /\ reply_text # <<>> => Head(reply_text) = "(dry-run) prompt: "
        /\ (Accepted /\ Exited /\ exit_code = 0) =>
               /\ LastLine.level = "notice"
               /\ LastLine.text =
                      <<"(DRY-RUN) Would post:", "\n">>
                      \o (IF mention /\ commenter # "" THEN <<"@", commenter, " ">> ELSE <<>>)
                      \o <<"(dry-run) prompt: ", "{prompt}", " | model: ", "{model}">>

\* a dry run reached the posting step and logged the body with its mention
C5_Witness ==
    /\ DryRun /\ Accepted /\ Exited /\ exit_code = 0
    /\ mention /\ commenter = "alice"
    /\ ~CliDisabled /\ env.GITHUB_TOKEN # ""
    /\ LastLine.text[3] = "@"

\* C6: when stage 2 answers an error object with message m, no text is
\* extracted and stage 3 is not called, the body handed to the posting step
\* is '(OpenAI error) ' + m, with '@<login> ' in front exactly when the
\* mention flag is on and the commenter login is not empty, and the process
\* exits 0 once that comment is posted.
C6_ApplicationError ==
    (responses.kind = "ok" /\ HasError(resp_json) /\ resp_json.error.message # <<>>) =>
        LET m == resp_json.error.message
            expected == (IF mention /\ commenter # "" THEN <<"@", commenter, " ">> ELSE <<>>)
                        \o <<"(OpenAI error) ">> \o m
        IN /\ Cnt(ChatPost) = 0 /\ pc # "chat"
           /\ reply_text = <<"(OpenAI error) ">> \o m
           /\ pc \in {"assemble", "github_token", "addressing", "post", "exited"}
           /\ pc # "assemble" => body_md = expected
           /\ Cnt(CommentPost) = 1 => (pc = "exited" /\ body_md = expected)
           /\ posted # <<>> => (posted = <<expected>> /\ exit_code = 0)

\* the error 'boom' was posted with the mention in front, and the run ended 0
C6_Witness ==
    /\ responses.kind = "ok" /\ HasError(resp_json)
    /\ resp_json.output_text # <<>>
    /\ posted = << <<"@", "alice", " ", "(OpenAI error) ", "b", "o", "o", "m">> >>
    /\ Exited /\ exit_code = 0

-----------------------------------------------------------------------------
(* Failures of the calls, and the exit code *)

Failed(outcome) == outcome.kind \in {"http_error", "exception"}

OneLine(text) == \A i \in 1..Len(text) : text[i] \notin {"\n", "\r"}

\* the string call_openai makes up for a failed Chat call
SynthesizedChatReply ==
    IF chat.kind = "http_error"
      THEN <<"(OpenAI error) chat fallback ", chat.code, ": ">>
           \o (IF Len(chat.err_body) <= 200 THEN chat.err_body
               ELSE SubSeq(chat.err_body, 1, 200))
      ELSE <<"(No text response received from the model.)">>

\* a failed Responses call ends the process with code 1, before any Chat
\* call and any comment
ResponsesFailureIsFatal ==
    Failed(responses) =>
        /\ Exited /\ exit_code = 1
        /\ LastLine.level = "error"
        /\ Cnt(ChatPost) = 0 /\ Cnt(CommentPost) = 0 /\ posted = <<>>
        /\ reply_text = <<>> /\ body_md = <<>>

\* a failed Chat call does not end the process: the made-up string is the
\* reply the run carries to the posting step
ChatFailureIsNotFatal ==
    Failed(chat) =>
        /\ reply_text = SynthesizedChatReply
        /\ pc \in {"assemble", "github_token", "addressing", "post", "exited"}
        /\ pc # "assemble" =>
               body_md = (IF mention /\ commenter # "" THEN <<"@", commenter, " ">> ELSE <<>>)
                         \o SynthesizedChatReply
        /\ Exited =>
               LastLine.text \in { <<"Missing GITHUB_TOKEN">>,
                                   <<"Cannot resolve repository/issue context to post comment">>,
                                   <<"Failed to post comment">>,
                                   <<"Reply posted successfully">> }
        /\ posted # <<>> => exit_code = 0

\* C9 as claimed: a failure of the Responses call is fatal (exit 1, no Chat
\* call, no comment), a failure of the Chat call is not: call_openai returns
\* a synthesized ONE-LINE string, and the run goes on to the posting step
\* with that string as the reply.
C9_AsymmetricFailure_AsClaimed ==
    /\ ResponsesFailureIsFatal
    /\ ChatFailureIsNotFatal
    /\ Failed(chat) => OneLine(reply_text)

\* C9 as amended: the same, but the synthesized string is the no-text
\* placeholder for a transport failure and, for an HTTP error,
\* '(OpenAI error) chat fallback <code>: ' followed by the first 200
\* characters of the error body as they are, line breaks included: it is one
\* line only if those characters are.
C9_AsymmetricFailure ==
    /\ ResponsesFailureIsFatal
    /\ ChatFailureIsNotFatal
    /\ (Failed(chat) /\ OneLine(chat.err_body)) => OneLine(reply_text)

\* the Chat call failed with an HTTP error and its body was posted as reply
C9_Witness ==
    /\ chat.kind = "http_error"
    /\ posted = << <<"(OpenAI error) chat fallback ", "429", ": ", "b", "u", "s", "y">> >>
    /\ Exited /\ exit_code = 0

\* C10: an accepted run outside dry-run ends with exit code 0 exactly when
\* one comment-creation POST was issued and accepted; every other end
\* (missing OPENAI_API_KEY, failed Responses call, missing GITHUB_TOKEN,
\* unresolvable owner/repo/number, failed comment POST) is exit code 1 with
\* no comment posted; and GITHUB_TOKEN and the addressing are checked only
\* once the dispatcher has returned the reply text.
C10_ExitCode ==
    (Accepted /\ ~DryRun) =>
        /\ Exited =>
               /\ exit_code \in {0, 1}
               /\ exit_code = 0 <=> (Cnt(CommentPost) = 1 /\ Len(posted) = 1)
               /\ exit_code = 1 =>
                      /\ posted = <<>>
                      /\ LastLine.level = "error"
                      /\ \/ (LastLine.text = <<"Missing OPENAI_API_KEY secret">>
                               /\ env.OPENAI_API_KEY = "" /\ calls = <<>>)
                         \/ (LastLine.text \in {<<"OpenAI /v1/responses failed">>,
                                                <<"OpenAI call failed">>}
                               /\ Failed(responses))
                         \/ (LastLine.text = <<"Missing GITHUB_TOKEN">>
                               /\ env.GITHUB_TOKEN = "" /\ reply_text # <<>>)
                         \/ (LastLine.text = <<"Cannot resolve repository/issue context to post comment">>
                               /\ ~Addressed /\ reply_text # <<>>)
                         \/ (LastLine.text = <<"Failed to post comment">>
                               /\ Cnt(CommentPost) = 1)
        /\ pc \in {"github_token", "addressing", "post"} =>
               (reply_text # <<>> /\ body_md # <<>>)

\* the model answered, and only then the run ended for want of an address
C10_Witness ==
    /\ Accepted /\ ~DryRun /\ Exited /\ exit_code = 1
    /\ ~Addressed /\ env.GITHUB_TOKEN # ""
    /\ Cnt(ResponsesPost) = 1 /\ reply_text # <<>>
    /\ LastLine.text = <<"Cannot resolve repository/issue context to post comment">>

-----------------------------------------------------------------------------
(* The prompt builder *)

\* the input of safe_trim for a thread comment: its body, CRLF turned into
\* LF, trimmed
Normalized(c) == Strip(ReplaceCRLF(c.body))

\* the ellipsis rule: a text within the limit is unchanged, a longer one
\* becomes exactly `limit` characters, the last one the ellipsis
EllipsisRule(text, limit, result) ==
    IF Len(text) <= limit
      THEN result = text
      ELSE /\ Len(result) = limit
           /\ result[Len(result)] = Ellipsis
           /\ SubSeq(result, 1, Len(result) - 1) = SubSeq(text, 1, Len(result) - 1)

\* C7: the list fetch_thread_comments returns holds no comment with the
\* triggering comment's id, is sorted ascending by creation time, is made of
\* the most recent comments of that order, and has at most
\* max_thread_comments entries, for every configured integer.
C7_ThreadSelection ==
    p_pc \in {"assemble", "done"} =>
        /\ \A i \in 1..Len(p_comments) : p_comments[i].id # p_in.exclude_comment_id
        /\ \A i, k \in 1..Len(p_comments) :
               i < k => p_comments[i].created_at <= p_comments[k].created_at
        /\ \A i \in 1..Len(p_comments) : \E k \in 1..Len(p_in.items) : p_in.items[k] = p_comments[i]
        /\ \A k \in 1..Len(p_in.items) :
               (/\ p_in.items[k].id # p_in.exclude_comment_id
                /\ \A i \in 1..Len(p_comments) : p_comments[i] # p_in.items[k])
               => \A i \in 1..Len(p_comments) :
                      p_in.items[k].created_at <= p_comments[i].created_at
        /\ Len(p_comments) <= p_in.max_thread_comments

\* C7 on the configurations the selection is right for
C7_ThreadSelection_PositiveLimit ==
    p_in.max_thread_comments >= 1 => C7_ThreadSelection

\* C8: safe_trim leaves a text within the limit unchanged and cuts a longer
\* one to exactly the limit, ellipsis last, for thread comment bodies (limit
\* 1200) and for the context string (limit max_context_chars, any configured
\* value), so the context string placed in the prompt never exceeds
\* max_context_chars characters.
C8_EllipsisTruncation ==
    p_pc = "done" =>
        /\ Len(p_lines) = Len(p_comments)
        /\ \A i \in 1..Len(p_lines) :
               /\ EllipsisRule(Normalized(p_comments[i]), 1200, p_lines[i])
               /\ Len(p_lines[i]) <= 1200
        /\ EllipsisRule(Join(<<"\n", "\n">>, ContextBlocks(p_in, p_comments)),
                        p_in.max_context_chars, p_context)
        /\ Len(p_context) <= p_in.max_context_chars

\* C8 on the configurations the truncation is right for
C8_EllipsisTruncation_PositiveLimit ==
    p_in.max_context_chars >= 1 => C8_EllipsisTruncation

====
